---------------------------- MODULE Spec2Model ----------------------------
(***************************************************************************)
(* Model of the movie-recommendation page (src/src/app/page.tsx) and its   *)
(* HTTP wrapper (src/src/utils/fetch.ts).                                  *)
(*                                                                         *)
(* The page holds three pieces of React state (input, searchQuery,         *)
(* searchKey) and two useSWR hooks keyed by [path, searchKey], both called *)
(* with the single option { revalidateOnFocus: false }.  Every other SWR   *)
(* option keeps its library default (SWR 2.x, the first version whose hook *)
(* returns isLoading): dedupingInterval 2000 ms, revalidateOnReconnect     *)
(* true, shouldRetryOnError true with errorRetryInterval 5000 ms and no    *)
(* errorRetryCount.  The hooks' observable behaviour under these options   *)
(* is modelled by the cache / FETCH / retryTimers variables below.         *)
(*                                                                         *)
(* Strings the code inspects character by character (titles, the text box) *)
(* are sequences of one-character strings.                                 *)
(***************************************************************************)
EXTENDS Integers, Sequences, FiniteSets, TLC

VARIABLES
    input,        \* page.tsx:44   text box content
    searchQuery,  \* page.tsx:45   query of the last accepted submission
    searchKey,    \* page.tsx:46   revision counter
    cache,        \* SWR cache: cache[path][rev] = {data, error, isValidating, isLoading}
    FETCH,        \* SWR's table of ongoing / recently finished requests per key
    net,          \* number of network calls (fetch.ts:14) outstanding per key
    calls,        \* number of network calls ever started per key
    nReval,       \* number of reconnect events and retry-timer firings handled
    deduped,      \* TRUE once a revalidate found its key's request pending and joined it
    retryTimers,  \* pending onErrorRetry timers per key
    mounted,      \* FALSE once a render of Home has thrown
    nSubmit,      \* number of accepted submissions (page.tsx:125 executed)
    resubmitted,  \* TRUE once a submission repeated the previous query text
    lateArrived,  \* TRUE once a request of a superseded revision has settled
    title,        \* cleanTitle harness: the input title
    once,         \* cleanTitle harness: cleanTitle(title)
    twice,        \* cleanTitle harness: cleanTitle(cleanTitle(title))
    pcN,          \* cleanTitle harness: position
    llmIn,        \* overlaps harness: llmResults
    simIn,        \* overlaps harness: similarityResults
    ov,           \* overlaps harness: the value of overlaps
    pcO           \* overlaps harness: position

appVars  == <<input, searchQuery, searchKey, cache, FETCH, net, calls, nReval,
              deduped, retryTimers, mounted, nSubmit, resubmitted, lateArrived>>
normVars == <<title, once, twice, pcN>>
ovVars   == <<llmIn, simIn, ov, pcO>>
vars     == <<appVars, normVars, ovVars>>

(***************************************************************************)
(* Bounds of the model.                                                    *)
(***************************************************************************)
MaxRev    == 2   \* accepted submissions explored
MaxReval  == 1   \* reconnect events and retry timers explored
MaxPieces == 3   \* pieces concatenated into a cleanTitle input
MaxList   == 2   \* length of a recommendation list given to overlaps

(***************************************************************************)
(* Characters and strings.                                                 *)
(***************************************************************************)
UpperSeq == <<"A","B","C","D","E","F","G","H","I","J","K","L","M",
              "N","O","P","Q","R","S","T","U","V","W","X","Y","Z">>
LowerSeq == <<"a","b","c","d","e","f","g","h","i","j","k","l","m",
              "n","o","p","q","r","s","t","u","v","w","x","y","z">>

\* regex class \d
IsDigit(c) == c \in {"0","1","2","3","4","5","6","7","8","9"}

\* regex class \s, and the characters String.prototype.trim removes
IsSpace(c) == c \in {" ", "\t", "\n", "\r"}

\* String.prototype.toLowerCase on one character
lowerChar(c) ==
    IF \E i \in 1..Len(UpperSeq) : UpperSeq[i] = c
    THEN LowerSeq[CHOOSE i \in 1..Len(UpperSeq) : UpperSeq[i] = c]
    ELSE c

toLowerCase(s) == [i \in 1..Len(s) |-> lowerChar(s[i])]

\* String.prototype.trim
trim(s) ==
    LET n == Len(s)
        keep == {i \in 1..n : ~IsSpace(s[i])}
    IN  IF keep = {} THEN <<>>
        ELSE LET lo == CHOOSE i \in keep : \A j \in keep : i <= j
                 hi == CHOOSE i \in keep : \A j \in keep : j <= i
             IN  SubSeq(s, lo, hi)

\* whether s ends in "(dddd)": the part \(\d{4}\)$ of the regex
endsInYear(s) ==
    LET n == Len(s)
    IN  /\ n >= 6
        /\ s[n - 5] = "("
        /\ \A i \in (n - 4)..(n - 1) : IsDigit(s[i])
        /\ s[n] = ")"

\* s.replace(/\s*\(\d{4}\)$/, ""): the regex has no g flag and is anchored at
\* the end, so the one match is the last six characters with the whole run of
\* whitespace in front of them (the leftmost start from which \s* reaches "(").
stripYear(s) ==
    IF ~endsInYear(s) THEN s
    ELSE LET m == Len(s) - 6
             keep == {i \in 1..m : ~IsSpace(s[i])}
             last == IF keep = {} THEN 0
                     ELSE CHOOSE i \in keep : \A j \in keep : j <= i
         IN  SubSeq(s, 1, last)

\* whether "(dddd)" starts at position i of s
yearAt(s, i) ==
    /\ i + 5 <= Len(s)
    /\ s[i] = "("
    /\ \A j \in (i + 1)..(i + 4) : IsDigit(s[j])
    /\ s[i + 5] = ")"

\* the same with the regex /\s*\(\d{4}\)/, which lacks the anchor: the first
\* year group, wherever it stands, goes with the whitespace in front of it
cleanTitleUnanchored(t) ==
    LET starts == {i \in 1..Len(t) : yearAt(t, i)}
    IN  IF starts = {} THEN toLowerCase(t)
        ELSE LET i == CHOOSE x \in starts : \A y \in starts : x <= y
                 keep == {j \in 1..(i - 1) : ~IsSpace(t[j])}
                 last == IF keep = {} THEN 0
                         ELSE CHOOSE x \in keep : \A y \in keep : y <= x
             IN  toLowerCase(SubSeq(t, 1, last) \o SubSeq(t, i + 6, Len(t)))

\* page.tsx:64-67

cleanTitle(t) == toLowerCase(stripYear(t))

(***************************************************************************)
(* Response bodies as the page sees them.  shape "llm" has the field       *)
(* parsed_recommendations, shape "sim" the field recommendations (each a   *)
(* sequence of titles: the only item field the page computes with); shape  *)
(* "other" is any JSON object with neither field; Undefined is             *)
(* JavaScript's undefined.  The field status is not part of the body: it   *)
(* records the status of the response the body arrived in, which the page  *)
(* never reads.                                                            *)
(***************************************************************************)
StatusOk    == "2xx"       \* res.ok
StatusNotOk == "non-2xx"   \* !res.ok

Undefined == [shape |-> "undefined", items |-> <<>>, status |-> "none"]
OtherJson(st) == [shape |-> "other", items |-> <<>>, status |-> st]
LlmResponse(items) == [shape |-> "llm", items |-> items, status |-> StatusOk]
SimResponse(items) == [shape |-> "sim", items |-> items, status |-> StatusOk]

\* llmResults?.parsed_recommendations is truthy
hasParsed(d) == d.shape = "llm"
\* similarityResults?.recommendations is truthy
hasRecs(d) == d.shape = "sim"

\* titles.map((item) => cleanTitle(item.title))
cleanTitles(items) == [i \in 1..Len(items) |-> cleanTitle(items[i])]

RECURSIVE filterIn(_, _)
filterIn(s, set) ==
    IF s = <<>> THEN <<>>
    ELSE LET rest == filterIn(Tail(s), set)
         IN  IF Head(s) \in set THEN <<Head(s)>> \o rest ELSE rest

Range(s) == {s[i] : i \in 1..Len(s)}

EmptyOverlap == [count |-> 0, titles |-> <<>>]

overlapsRawTitles(llmResults, similarityResults) ==
    IF ~hasParsed(llmResults) \/ ~hasRecs(similarityResults) THEN EmptyOverlap
    ELSE LET llmTitles == {cleanTitle(t) : t \in Range(llmResults.items)}
             overlappingTitles ==
                 filterIn(similarityResults.items,
                          {t \in Range(similarityResults.items) : cleanTitle(t) \in llmTitles})
         IN  [count |-> Len(overlappingTitles), titles |-> overlappingTitles]

overlapsLlmOrder(llmResults, similarityResults) ==
    IF ~hasParsed(llmResults) \/ ~hasRecs(similarityResults) THEN EmptyOverlap
    ELSE LET simTitles == {cleanTitle(t) : t \in Range(similarityResults.items)}
             overlappingTitles ==
                 filterIn(cleanTitles(llmResults.items), simTitles)
         IN  [count |-> Len(overlappingTitles), titles |-> overlappingTitles]

\* page.tsx:95-118
overlaps(llmResults, similarityResults) ==
    IF ~hasParsed(llmResults) \/ ~hasRecs(similarityResults) THEN EmptyOverlap
    ELSE LET llmTitles == {cleanTitle(t) : t \in Range(llmResults.items)}
             similarityTitles == cleanTitles(similarityResults.items)
             overlappingTitles == filterIn(similarityTitles, llmTitles)
         IN  [count |-> Len(overlappingTitles), titles |-> overlappingTitles]


(***************************************************************************)
(* The HTTP wrapper, src/src/utils/fetch.ts.                               *)
(*                                                                         *)
(* A network outcome is what fetch() did: it rejected (kind "reject"), or  *)
(* it produced a response with a status and a body that is JSON (json      *)
(* TRUE, parsing to data) or is not.                                       *)
(***************************************************************************)
Sources == {"/recommend_llm", "/recommend"}
Revs    == 1..MaxRev

NoError == "undefined"

Reject == [kind |-> "reject", status |-> "none", json |-> FALSE, data |-> Undefined]
Response(st, isJson, d) == [kind |-> "response", status |-> st, json |-> isJson, data |-> d]

\* fetch.ts:4-22.  await fetch(...) throws when the call rejects; res.json()
\* throws when the body is not JSON; anything else is returned as TRes.
\* res.status and res.ok are never read.
fetcher(o) ==
    IF o.kind = "reject" THEN [ok |-> FALSE, data |-> Undefined, err |-> "TypeError"]
    ELSE IF ~o.json THEN [ok |-> FALSE, data |-> Undefined, err |-> "SyntaxError"]
    ELSE [ok |-> TRUE, data |-> o.data, err |-> NoError]

(***************************************************************************)
(* Inputs of the application model.                                        *)
(***************************************************************************)
\* what the user can type: a blank text and two queries
Texts == {<<" ">>, <<"a">>, <<"b">>}

TitleA1999 == <<"A", " ", "(", "1", "9", "9", "9", ")">>
TitleLowerA == <<"a">>
TitleB == <<"B">>

\* the bodies with the shape the page expects from a path
GoodData(s) ==
    IF s = "/recommend_llm" THEN {LlmResponse(<<TitleA1999>>)}
    ELSE {SimResponse(<<TitleLowerA, TitleB>>)}

\* what the network can do to a call: reject; answer 2xx with the expected
\* body or with another JSON object; answer non-2xx with a JSON error object or
\* with a body that is not JSON
Outcomes(s) ==
    {Reject}
    \cup {Response(StatusOk, TRUE, d) : d \in GoodData(s) \cup {OtherJson(StatusOk)}}
    \cup {Response(StatusNotOk, TRUE, OtherJson(StatusNotOk)),
          Response(StatusNotOk, FALSE, Undefined)}

(***************************************************************************)
(* The two useSWR hooks, page.tsx:70-88.                                   *)
(***************************************************************************)
EmptyEntry == [data |-> Undefined, error |-> NoError,
               isValidating |-> FALSE, isLoading |-> FALSE]

NoFetch == [st |-> "none", rev |-> 0]

swrKeyNoRev(s, k) == 1

\* page.tsx:75, 85: the key is [path, searchKey]; the cache slot of path s is
\* selected by the revision
swrKey(s, k) == k

\* page.tsx:75, 85: searchQuery ? [...] : null
keyIsNull(q) == q = <<>>

alwaysStartNewRequest(f, dedupe) == TRUE

\* SWR's revalidate: a request is started unless one is in FETCH for the key
\* and the caller dedupes.  Every caller this page has dedupes: the key-change
\* effect, the reconnect listener and the error-retry timer.
shouldStartNewRequest(f, dedupe) == f.st = "none" \/ ~dedupe

\* the keys (path, slot) of a set of paths under revision k
KeysOf(S, k) == {<<s, swrKey(s, k)>> : s \in S}

\* the cache after revalidate on every key of K: initialState
cacheAfterRevalidate(K) ==
    [s \in Sources |-> [r \in Revs |->
        IF <<s, r>> \in K /\ shouldStartNewRequest(FETCH[s][r], TRUE)
        THEN [cache[s][r] EXCEPT !.isValidating = TRUE,
                                 !.isLoading = IF cache[s][r].data = Undefined
                                               THEN TRUE ELSE @]
        ELSE cache[s][r]]]

\* FETCH after revalidate on every key of K in a render of revision k: a
\* started request belongs to the key, hence to the revision, of that render
fetchAfterRevalidate(K, k) ==
    [s \in Sources |-> [r \in Revs |->
        IF <<s, r>> \in K /\ shouldStartNewRequest(FETCH[s][r], TRUE)
        THEN [st |-> "pending", rev |-> k]
        ELSE FETCH[s][r]]]

countAfterRevalidate(cnt, K) ==
    [s \in Sources |-> [r \in Revs |->
        IF <<s, r>> \in K /\ shouldStartNewRequest(FETCH[s][r], TRUE)
        THEN cnt[s][r] + 1 ELSE cnt[s][r]]]

(***************************************************************************)
(* What a render of Home computes, from the React state (q, k) and the     *)
(* cache c.                                                                *)
(***************************************************************************)
hookEntry(c, q, k, s) == IF keyIsNull(q) THEN EmptyEntry ELSE c[s][swrKey(s, k)]

llmResultsOf(c, q, k)        == hookEntry(c, q, k, "/recommend_llm").data
similarityResultsOf(c, q, k) == hookEntry(c, q, k, "/recommend").data
llmErrorOf(c, q, k)          == hookEntry(c, q, k, "/recommend_llm").error
similarityErrorOf(c, q, k)   == hookEntry(c, q, k, "/recommend").error

\* page.tsx:91
isLoadingOf(c, q, k) ==
    hookEntry(c, q, k, "/recommend_llm").isLoading \/ hookEntry(c, q, k, "/recommend").isLoading

\* page.tsx:92
hasErrorOf(c, q, k) == llmErrorOf(c, q, k) # NoError \/ similarityErrorOf(c, q, k) # NoError

\* page.tsx:235: the results section is rendered
resultsShownOf(c, q, k) ==
    /\ ~isLoadingOf(c, q, k)
    /\ ~hasErrorOf(c, q, k)
    /\ (llmResultsOf(c, q, k) # Undefined \/ similarityResultsOf(c, q, k) # Undefined)

\* page.tsx:247, 270: x?.field.map(...) throws when x is an object without
\* the field
renderThrowsOf(c, q, k) ==
    /\ resultsShownOf(c, q, k)
    /\ \/ (llmResultsOf(c, q, k) # Undefined /\ ~hasParsed(llmResultsOf(c, q, k)))
       \/ (similarityResultsOf(c, q, k) # Undefined /\ ~hasRecs(similarityResultsOf(c, q, k)))

llmResults        == llmResultsOf(cache, searchQuery, searchKey)
similarityResults == similarityResultsOf(cache, searchQuery, searchKey)
isLoading         == isLoadingOf(cache, searchQuery, searchKey)
hasError          == hasErrorOf(cache, searchQuery, searchKey)
resultsShown      == resultsShownOf(cache, searchQuery, searchKey)

\* the aggregate view of a render
ViewOf(c, q, k) ==
    [llmData        |-> llmResultsOf(c, q, k),
     similarityData |-> similarityResultsOf(c, q, k),
     overlap        |-> overlaps(llmResultsOf(c, q, k), similarityResultsOf(c, q, k)),
     isLoading      |-> isLoadingOf(c, q, k),
     hasError       |-> hasErrorOf(c, q, k)]

View == ViewOf(cache, searchQuery, searchKey)

\* page.tsx:247-260 / 270-285: the path's recommendation list is on screen
listShown(s) ==
    /\ mounted
    /\ resultsShown
    /\ IF s = "/recommend_llm" THEN hasParsed(llmResults) ELSE hasRecs(similarityResults)


(***************************************************************************)
(* The application: initial state and one action per handler.              *)
(***************************************************************************)
AppInit ==
    /\ input = <<>>
    /\ searchQuery = <<>>
    /\ searchKey = 0
    /\ cache = [s \in Sources |-> [r \in Revs |-> EmptyEntry]]
    /\ FETCH = [s \in Sources |-> [r \in Revs |-> NoFetch]]
    /\ net = [s \in Sources |-> [r \in Revs |-> 0]]
    /\ calls = [s \in Sources |-> [r \in Revs |-> 0]]
    /\ nReval = 0
    /\ deduped = FALSE
    /\ retryTimers = [s \in Sources |-> [r \in Revs |-> 0]]
    /\ mounted = TRUE
    /\ nSubmit = 0
    /\ resubmitted = FALSE
    /\ lateArrived = FALSE

\* the application's steps leave the two function harnesses alone
HarnessIdle == UNCHANGED <<title, once, twice, pcN, llmIn, simIn, ov, pcO>>

NormIdle == /\ title = <<>> /\ once = <<>> /\ twice = <<>> /\ pcN = "idle"
OvIdle   == /\ llmIn = Undefined /\ simIn = Undefined /\ ov = EmptyOverlap /\ pcO = "idle"

\* page.tsx:202 onChange; the text box is disabled while isLoading (line 205)
SetInput(t) ==
    /\ mounted
    /\ ~isLoading
    /\ input' = t
    /\ HarnessIdle
    /\ UNCHANGED <<searchQuery, searchKey, cache, FETCH, net, calls, nReval, deduped,
                   retryTimers, mounted, nSubmit, resubmitted, lateArrived>>

nextSearchKeySkipSame(prev, text, query) == IF text = query THEN prev ELSE prev + 1

\* page.tsx:126 setSearchKey((prev) => prev + 1)
nextSearchKey(prev, text, query) == prev + 1

\* revalidate on every key of K, in a render of revision k
Revalidate(K, k) ==
    /\ cache' = cacheAfterRevalidate(K)
    /\ FETCH' = fetchAfterRevalidate(K, k)
    /\ net' = countAfterRevalidate(net, K)
    /\ calls' = countAfterRevalidate(calls, K)
    /\ deduped' = (deduped \/ \E key \in K :
                                  /\ FETCH[key[1]][key[2]].st = "pending"
                                  /\ ~shouldStartNewRequest(FETCH[key[1]][key[2]], TRUE))

\* page.tsx:120-127 handleSubmit with a blank text box: the early return.
\* The form's controls are disabled while isLoading (lines 205, 210).
SubmitBlank ==
    /\ mounted
    /\ ~isLoading
    /\ trim(input) = <<>>
    /\ UNCHANGED vars

\* page.tsx:120-127 handleSubmit, the re-render it causes and the two hooks'
\* key-change effects (page.tsx:74-88), which revalidate the new keys
Submit ==
    /\ mounted
    /\ ~isLoading
    /\ trim(input) # <<>>
    /\ nextSearchKey(searchKey, input, searchQuery) <= MaxRev
    /\ searchQuery' = input
    /\ searchKey' = nextSearchKey(searchKey, input, searchQuery)
    /\ nSubmit' = nSubmit + 1
    /\ resubmitted' = (resubmitted \/ input = searchQuery)
    /\ Revalidate(KeysOf(Sources, searchKey'), searchKey')
    /\ mounted' = ~renderThrowsOf(cache', searchQuery', searchKey')
    /\ UNCHANGED <<input, nReval, retryTimers, lateArrived>>
    /\ HarnessIdle

\* the browser's online event: revalidateOnReconnect is left at its default
\* (page.tsx:77, 87 set only revalidateOnFocus), so both hooks revalidate
\* their current key
Reconnect ==
    /\ mounted
    /\ ~keyIsNull(searchQuery)
    /\ nReval < MaxReval
    /\ nReval' = nReval + 1
    /\ Revalidate(KeysOf(Sources, searchKey), searchKey)
    /\ UNCHANGED <<input, searchQuery, searchKey, retryTimers, mounted, nSubmit,
                   resubmitted, lateArrived>>
    /\ HarnessIdle

\* the browser's focus event: revalidateOnFocus is false (page.tsx:77, 87)
Focus ==
    /\ mounted
    /\ UNCHANGED vars

\* a network call of key (s, r) settles with outcome o: fetcher's promise
\* resolves or rejects and revalidate stores the final state under its key
Settle(s, r, o) ==
    LET res == fetcher(o)
    IN  /\ FETCH[s][r].st = "pending"
        /\ net[s][r] > 0
        /\ net' = [net EXCEPT ![s][r] = @ - 1]
        /\ IF res.ok
           THEN /\ cache' = [cache EXCEPT ![s][r] =
                                 [data |-> res.data, error |-> NoError,
                                  isValidating |-> FALSE, isLoading |-> FALSE]]
                /\ FETCH' = [FETCH EXCEPT ![s][r].st = "settled"]
                /\ UNCHANGED retryTimers
           ELSE /\ cache' = [cache EXCEPT ![s][r] =
                                 [@ EXCEPT !.error = res.err,
                                           !.isValidating = FALSE, !.isLoading = FALSE]]
                /\ FETCH' = [FETCH EXCEPT ![s][r] = NoFetch]
                \* shouldRetryOnError is left at its default: onErrorRetry sets a
                \* timer when the key is still the hook's key
                /\ retryTimers' = IF ~keyIsNull(searchQuery) /\ swrKey(s, searchKey) = r
                                  THEN [retryTimers EXCEPT ![s][r] = @ + 1]
                                  ELSE retryTimers
        /\ mounted' = (mounted /\ ~renderThrowsOf(cache', searchQuery, searchKey))
        /\ lateArrived' = (lateArrived \/ FETCH[s][r].rev < searchKey)
        /\ UNCHANGED <<input, searchQuery, searchKey, calls, nReval, deduped, nSubmit,
                       resubmitted>>
        /\ HarnessIdle

\* dedupingInterval after a request succeeded: cleanupState deletes FETCH[key]
Cleanup(s, r) ==
    /\ FETCH[s][r].st = "settled"
    /\ FETCH' = [FETCH EXCEPT ![s][r] = NoFetch]
    /\ UNCHANGED <<input, searchQuery, searchKey, cache, net, calls, nReval, deduped,
                   retryTimers, mounted, nSubmit, resubmitted, lateArrived>>
    /\ HarnessIdle

\* an onErrorRetry timer fires: the key's revalidator runs if the hook still
\* holds the key
RetryFire(s, r) ==
    /\ retryTimers[s][r] > 0
    /\ nReval < MaxReval
    /\ nReval' = nReval + 1
    /\ retryTimers' = [retryTimers EXCEPT ![s][r] = @ - 1]
    /\ IF mounted /\ ~keyIsNull(searchQuery) /\ swrKey(s, searchKey) = r
       THEN Revalidate({<<s, r>>}, searchKey)
       ELSE UNCHANGED <<cache, FETCH, net, calls, deduped>>
    /\ UNCHANGED <<input, searchQuery, searchKey, mounted, nSubmit, resubmitted,
                   lateArrived>>
    /\ HarnessIdle

Next ==
    \/ \E t \in Texts : SetInput(t)
    \/ SubmitBlank
    \/ Submit
    \/ Reconnect
    \/ Focus
    \/ \E s \in Sources, r \in Revs : \E o \in Outcomes(s) : Settle(s, r, o)
    \/ \E s \in Sources, r \in Revs : Cleanup(s, r)
    \/ \E s \in Sources, r \in Revs : RetryFire(s, r)

Init == AppInit /\ NormIdle /\ OvIdle
Spec == Init /\ [][Next]_vars


(***************************************************************************)
(* cleanTitle applied once and twice to a title (page.tsx:64-67).          *)
(***************************************************************************)
Year1999  == <<"(", "1", "9", "9", "9", ")">>
ShortYear == <<"(", "1", "9", ")">>

\* what titles are put together from
Pieces == {<<"a">>, <<"B">>, <<" ">>, Year1999, ShortYear}

Inception2010  == <<"I","n","c","e","p","t","i","o","n"," ","(","2","0","1","0",")">>
InceptionLower == <<"i","n","c","e","p","t","i","o","n">>

RECURSIVE Concats(_)
Concats(n) ==
    IF n = 0 THEN {<<>>}
    ELSE Concats(n - 1) \cup {t \o p : t \in Concats(n - 1), p \in Pieces}

TitleInputs == Concats(MaxPieces) \cup {Inception2010, InceptionLower}

NormInit ==
    /\ AppInit /\ OvIdle
    /\ title \in TitleInputs
    /\ once = <<>>
    /\ twice = <<>>
    /\ pcN = "start"

NormOnce ==
    /\ pcN = "start"
    /\ once' = cleanTitle(title)
    /\ pcN' = "once"
    /\ UNCHANGED <<title, twice, appVars, ovVars>>

NormTwice ==
    /\ pcN = "once"
    /\ twice' = cleanTitle(once)
    /\ pcN' = "done"
    /\ UNCHANGED <<title, once, appVars, ovVars>>

NormNext == NormOnce \/ NormTwice
SpecNorm == NormInit /\ [][NormNext]_vars

(***************************************************************************)
(* overlaps computed from two responses (page.tsx:95-118).                 *)
(***************************************************************************)
Scream1996      == <<"S","c","r","e","a","m"," ","(","1","9","9","6",")">>
ScreamLower1996 == <<"s","c","r","e","a","m"," ","(","1","9","9","6",")">>
Shaun2004       == <<"S","h","a","u","n"," ","o","f"," ","t","h","e"," ","D","e","a","d"," ","(","2","0","0","4",")">>
Zombieland2009  == <<"Z","o","m","b","i","e","l","a","n","d"," ","(","2","0","0","9",")">>
ScreamClean     == <<"s","c","r","e","a","m">>

OvTitles == {Scream1996, ScreamLower1996, Shaun2004, Zombieland2009}

RECURSIVE ListsUpTo(_)
ListsUpTo(n) ==
    IF n = 0 THEN {<<>>}
    ELSE ListsUpTo(n - 1) \cup {Append(l, t) : l \in ListsUpTo(n - 1), t \in OvTitles}

LlmInputs == {Undefined, OtherJson(StatusOk)} \cup {LlmResponse(l) : l \in ListsUpTo(MaxList)}
SimInputs == {Undefined, OtherJson(StatusOk)} \cup {SimResponse(l) : l \in ListsUpTo(MaxList)}

OvInit ==
    /\ AppInit /\ NormIdle
    /\ llmIn \in LlmInputs
    /\ simIn \in SimInputs
    /\ ov = EmptyOverlap
    /\ pcO = "start"

ComputeOverlap ==
    /\ pcO = "start"
    /\ ov' = overlaps(llmIn, simIn)
    /\ pcO' = "done"
    /\ UNCHANGED <<llmIn, simIn, appVars, normVars>>

OvNext == ComputeOverlap
SpecOverlap == OvInit /\ [][OvNext]_vars


(***************************************************************************)
(* Properties.                                                             *)
(***************************************************************************)
Min(a, b) == IF a <= b THEN a ELSE b

CurEntry(s) == hookEntry(cache, searchQuery, searchKey, s)

Other(s) == IF s = "/recommend_llm" THEN "/recommend" ELSE "/recommend_llm"

\* a request of a revision older than the current one settles in this step
StaleSettle ==
    \E s \in Sources, r \in Revs :
        /\ FETCH[s][r].st = "pending"
        /\ FETCH[s][r].rev < searchKey
        /\ FETCH'[s][r].st # "pending"

\* C1: when the request of a superseded revision settles, the aggregate view
\* (llmData, similarityData, overlap, isLoading, hasError) is what it was: it
\* is read from the entries of the latest revision, which the late response
\* does not touch.
C1_LateArrivalKeepsView ==
    [][StaleSettle => ViewOf(cache', searchQuery', searchKey') = View]_vars

\* C1 witness: revision 2 is current and a request of revision 1 has settled
\* after it was superseded.
C1_Witness ==
    /\ lateArrived
    /\ searchKey = 2
    /\ \E s \in Sources : calls[s][1] = 2 /\ FETCH[s][1].st # "pending"

\* C2: while a request of a key is pending no second network call is started
\* for that key, whatever calls revalidate on it, so at most one call of a key
\* is outstanding at any time.
C2_OneCallPerPendingKey ==
    [][\A s \in Sources, r \in Revs :
          /\ (FETCH[s][r].st = "pending" => calls'[s][r] = calls[s][r])
          /\ net'[s][r] <= 1]_vars

\* C2 witness: a revalidate has joined a pending request and the key still has
\* made one network call.
C2_Witness ==
    /\ deduped
    /\ \E s \in Sources, r \in Revs :
          FETCH[s][r].st = "pending" /\ calls[s][r] = 1 /\ net[s][r] = 1

\* C3: every accepted submission raises the revision by one, and the two keys
\* of the new revision have no cache entry, no request and no earlier network
\* call before it, and exactly one pending network call each after it.
C3_SubmissionFetchesAfresh ==
    [][nSubmit' # nSubmit =>
          /\ searchKey' = searchKey + 1
          /\ searchKey' = nSubmit'
          /\ \A s \in Sources :
                /\ cache[s][searchKey'] = EmptyEntry
                /\ FETCH[s][searchKey'].st = "none"
                /\ calls[s][searchKey'] = 0
                /\ calls'[s][searchKey'] = 1
                /\ FETCH'[s][searchKey'].st = "pending"
                /\ cache'[s][searchKey'].isLoading]_vars

\* C3 witness: the same text was submitted twice in a row and both revisions
\* made their own network calls on both paths.
C3_Witness ==
    /\ resubmitted
    /\ nSubmit = 2
    /\ \A s \in Sources : calls[s][1] >= 1 /\ calls[s][2] = 1

\* both entries of the current revision have failed and nothing is loading
BothFailed ==
    /\ ~keyIsNull(searchQuery)
    /\ \A s \in Sources : CurEntry(s).error # NoError
    /\ ~isLoading

\* C4 as stated: once both sources have failed the view is isLoading = false,
\* hasError = true, overlap = {0, []} and stays so until the next submission.
C4_BothFailedStays ==
    [][(BothFailed /\ nSubmit' = nSubmit) =>
          /\ ~isLoadingOf(cache', searchQuery', searchKey')
          /\ hasErrorOf(cache', searchQuery', searchKey')
          /\ ViewOf(cache', searchQuery', searchKey').overlap = EmptyOverlap]_vars

\* C5 as stated: when one entry of the current revision has failed and the
\* other holds its recommendations, the recommendations are on screen.
C5_ResolvedSideShown ==
    \A s \in Sources :
        (/\ mounted
         /\ ~keyIsNull(searchQuery)
         /\ CurEntry(s).data \in GoodData(s)
         /\ CurEntry(s).error = NoError
         /\ ~CurEntry(s).isValidating
         /\ CurEntry(Other(s)).error # NoError
         /\ ~CurEntry(Other(s)).isValidating)
        => listShown(s)

\* C6 as stated: only a 2xx response with the expected shape is stored as
\* data; a rejected call, a non-2xx response and an unexpected body are stored
\* as an error; and no such response makes the page throw.
C6_BadResponsesFail ==
    /\ \A s \in Sources, r \in Revs :
          cache[s][r].data # Undefined =>
              /\ cache[s][r].data.status = StatusOk
              /\ cache[s][r].data \in GoodData(s)
    /\ mounted

\* C7 as stated: every key has at most one network call over a run: a settled
\* entry is fetched again by nothing but a new submission, which makes new keys.
C7_OneFetchPerKey ==
    \A s \in Sources, r \in Revs : calls[s][r] <= 1

\* the title ends in two or more year groups
EndsInTwoYears(t) == endsInYear(t) /\ endsInYear(stripYear(t))

\* C8 as stated: cleanTitle is idempotent for every title.
C8_Idempotent ==
    pcN = "done" => twice = once

\* C8 amended: cleanTitle is idempotent for every title that does not end in
\* two or more year groups, and "Inception (2010)" and "inception" have the
\* same clean title, "inception".
C8_IdempotentUpToOneYear ==
    /\ (pcN = "done" /\ ~EndsInTwoYears(title)) => twice = once
    /\ (pcN # "start" /\ title \in {Inception2010, InceptionLower}) => once = InceptionLower

\* C8 witness: a title with one year group after whitespace has been cleaned
\* twice: the year and the whitespace are gone and the rest is in lower case.
C8_Witness ==
    /\ pcN = "done"
    /\ endsInYear(title)
    /\ ~EndsInTwoYears(title)
    /\ Len(once) < Len(title) - 6
    /\ once # stripYear(title)
    /\ twice = once

llmSet == {cleanTitle(t) : t \in Range(llmIn.items)}
simSet == {cleanTitle(t) : t \in Range(simIn.items)}

BothLists == pcO = "done" /\ hasParsed(llmIn) /\ hasRecs(simIn)

\* C9 as stated: count never exceeds the size of the smaller normalized-title
\* set, and every overlap title is in both sets.
C9_CountWithinSmallerSet ==
    BothLists =>
        /\ ov.count <= Min(Cardinality(llmSet), Cardinality(simSet))
        /\ Range(ov.titles) \subseteq (llmSet \cap simSet)

\* C9 amended: the number of distinct overlap titles never exceeds the size of
\* the smaller normalized-title set, count is the length of titles and never
\* exceeds the length of the similarity list, and every overlap title is in
\* both sets.
C9_DistinctWithinSmallerSet ==
    BothLists =>
        /\ Cardinality(Range(ov.titles)) <= Min(Cardinality(llmSet), Cardinality(simSet))
        /\ ov.count = Len(ov.titles)
        /\ ov.count <= Len(simIn.items)
        /\ Range(ov.titles) \subseteq (llmSet \cap simSet)

\* C9 witness: the similarity list repeats a normalized title the LLM list
\* has, and count exceeds the size of the similarity set.
C9_Witness ==
    /\ BothLists
    /\ ov.count = 2
    /\ Cardinality(simSet) = 1

Scenario ==
    /\ pcO = "done"
    /\ llmIn = LlmResponse(<<Scream1996, Shaun2004>>)
    /\ simIn = SimResponse(<<ScreamLower1996, Zombieland2009>>)

\* the positions of the similarity list whose clean title the LLM list has
Matching == {i \in 1..Len(simIn.items) : cleanTitle(simIn.items[i]) \in llmSet}

\* the j-th smallest matching position
NthMatching(j) == CHOOSE i \in Matching : Cardinality({m \in Matching : m <= i}) = j

\* C10 as stated: in the scenario the overlap is {count: 1, titles:
\* ["scream (1996)"]}.
C10_ScenarioRawTitle ==
    Scenario => ov = [count |-> 1, titles |-> <<ScreamLower1996>>]

\* C10 amended: in the scenario the overlap is {count: 1, titles: ["scream"]};
\* in general titles lists the clean titles of the matching similarity entries
\* in similarity-list order and count is its length.
C10_ScenarioCleanTitle ==
    /\ Scenario => ov = [count |-> 1, titles |-> <<ScreamClean>>]
    /\ BothLists =>
          /\ ov.count = Len(ov.titles)
          /\ Len(ov.titles) = Cardinality(Matching)
          /\ \A j \in 1..Len(ov.titles) :
                ov.titles[j] = cleanTitle(simIn.items[NthMatching(j)])

\* C10 witness: the scenario's overlap has been computed.
C10_Witness ==
    /\ Scenario
    /\ ov.count = 1
    /\ ov.titles[1] = ScreamClean

=============================================================================
